---- MODULE Spec2Model ----
(***************************************************************************)
(* Model of fi_nomad's model-free utilities (util/model_free_util.py) and *)
(* of the kernel return types (types/kernelReturnTypes.py).               *)
(*                                                                         *)
(* numpy arrays are objects on a heap: a function receives references and  *)
(* returns a reference.  A matrix is a sequence of rows, each a sequence   *)
(* of numbers; numbers are integers (exact arithmetic, no rounding).       *)
(***************************************************************************)
EXTENDS Integers, Sequences, FiniteSets

VARIABLES heap, base, cand, prev, betaParam, calls, result

vars == <<heap, base, cand, prev, betaParam, calls, result>>

(* ---------------------------- bounds ---------------------------------- *)

\* Largest number of cells of a matrix in a well-shaped run.
MaxCells == 2
\* Largest number of cells of a matrix in a run with arbitrary shapes.
MaxShapeCells == 3
\* Largest magnitude of an input matrix entry (and of a variance).
MaxVal == 1
\* Largest momentum parameter; the smallest is -1.
MaxBeta == 2
\* Number of calls a run makes.
MaxCalls == 2

Shapes(k) == {s \in (1..k) \X (1..k) : s[1] * s[2] <= k}
Matrices(s, vals) == [1..s[1] -> [1..s[2] -> vals]]
Betas == (0 - 1)..MaxBeta
Summaries == {"iterating", "converged"}
VarianceVals == (0 - 1)..MaxVal
VarianceVectors(k) == UNION {[1..n -> VarianceVals] : n \in 1..k}

(* ------------------------ numpy primitives ---------------------------- *)

Shape(A) == <<Len(A), Len(A[1])>>

Max2(a, b) == IF a >= b THEN a ELSE b

\* numpy's broadcasting rule for two 2-d shapes.
Broadcastable(s, t) == \A d \in 1..2 : s[d] = t[d] \/ s[d] = 1 \/ t[d] = 1
BroadcastShape(s, t) == <<Max2(s[1], t[1]), Max2(s[2], t[2])>>

\* Element (i, j) of A as seen through a broadcast: a dimension of size 1
\* is repeated.
At(A, i, j) == A[IF Len(A) = 1 THEN 1 ELSE i][IF Len(A[1]) = 1 THEN 1 ELSE j]

\* The outcome of a numpy expression: an array, or a ValueError raised.
Ok(M) == [ok |-> TRUE, val |-> M]
ValueError == [ok |-> FALSE, val |-> <<>>]

np_greater(A, c) == [i \in 1..Len(A) |-> [j \in 1..Len(A[1]) |-> A[i][j] > c]]
np_less(A, c) == [i \in 1..Len(A) |-> [j \in 1..Len(A[1]) |-> A[i][j] < c]]

RECURSIVE SelectCell(_, _, _, _, _, _)
SelectCell(condlist, choicelist, default, i, j, k) ==
    IF k > Len(condlist) THEN default
    ELSE IF At(condlist[k], i, j) THEN At(choicelist[k], i, j)
    ELSE SelectCell(condlist, choicelist, default, i, j, k + 1)

\* np.select over two conditions: the operands are broadcast to one shape
\* (ValueError when they cannot be), then each cell takes the choice of the
\* first condition that is true there, or the default.
np_select(condlist, choicelist, default) ==
    LET s == Shape(choicelist[1])
        t == Shape(choicelist[2])
        r == BroadcastShape(s, t)
    IN  IF ~Broadcastable(s, t) THEN ValueError
        ELSE Ok([i \in 1..r[1] |-> [j \in 1..r[2] |->
                    SelectCell(condlist, choicelist, default, i, j, 1)]])

np_subtract(A, B) ==
    LET r == BroadcastShape(Shape(A), Shape(B))
    IN  IF ~Broadcastable(Shape(A), Shape(B)) THEN ValueError
        ELSE Ok([i \in 1..r[1] |-> [j \in 1..r[2] |-> At(A, i, j) - At(B, i, j)]])

np_add(A, B) ==
    LET r == BroadcastShape(Shape(A), Shape(B))
    IN  IF ~Broadcastable(Shape(A), Shape(B)) THEN ValueError
        ELSE Ok([i \in 1..r[1] |-> [j \in 1..r[2] |-> At(A, i, j) + At(B, i, j)]])

np_scale(c, A) == [i \in 1..Len(A) |-> [j \in 1..Len(A[1]) |-> c * A[i][j]]]

np_maximum(c, A) == [i \in 1..Len(A) |-> [j \in 1..Len(A[1]) |-> Max2(c, A[i][j])]]
np_minimum(c, A) ==
    [i \in 1..Len(A) |-> [j \in 1..Len(A[1]) |-> IF c <= A[i][j] THEN c ELSE A[i][j]]]

\* A function's return: the value is a new array on the heap, or the
\* exception propagates and nothing is returned.
Return(h, r) ==
    IF r.ok THEN [raised |-> FALSE, heap |-> Append(h, r.val), ret |-> Len(h) + 1]
    ELSE [raised |-> TRUE, heap |-> h, ret |-> 0]

(* ------------------------ model_free_util.py -------------------------- *)

construct_utility_swapped(h, low_rank_matrix, base_matrix) ==
    LET conditions == <<np_less(h[low_rank_matrix], 0), np_greater(h[base_matrix], 0)>>
        choices == <<h[low_rank_matrix], h[base_matrix]>>
    IN  Return(h, np_select(conditions, choices, 0))

construct_utility_positive_L(h, low_rank_matrix, base_matrix) ==
    LET conditions == <<np_greater(h[base_matrix], 0), np_greater(h[low_rank_matrix], 0)>>
        choices == <<h[base_matrix], h[low_rank_matrix]>>
    IN  Return(h, np_select(conditions, choices, 0))

construct_utility(h, low_rank_matrix, base_matrix) ==
    LET conditions == <<np_greater(h[base_matrix], 0), np_less(h[low_rank_matrix], 0)>>
        choices == <<h[base_matrix], h[low_rank_matrix]>>
        utility_matrix == np_select(conditions, choices, 0)
    IN  Return(h, utility_matrix)

apply_momentum_reversed(h, current_X, previous_X, beta) ==
    LET diff == np_subtract(h[previous_X], h[current_X])
    IN  IF ~diff.ok THEN Return(h, ValueError)
        ELSE Return(h, np_add(h[current_X], np_scale(beta, diff.val)))

apply_momentum(h, current_X, previous_X, beta) ==
    LET diff == np_subtract(h[current_X], h[previous_X])
    IN  IF ~diff.ok THEN Return(h, ValueError)
        ELSE Return(h, np_add(h[current_X], np_scale(beta, diff.val)))

reconstruct_X_from_L_minimum(h, low_rank_candidate_L) ==
    Return(h, Ok(np_minimum(0, h[low_rank_candidate_L])))

reconstruct_X_from_L_negated(h, low_rank_candidate_L) ==
    Return(h, Ok(np_maximum(0, np_scale(0 - 1, h[low_rank_candidate_L]))))

reconstruct_X_from_L_inplace(h, low_rank_candidate_L) ==
    [raised |-> FALSE,
     heap |-> [h EXCEPT ![low_rank_candidate_L] = np_maximum(0, h[low_rank_candidate_L])],
     ret |-> low_rank_candidate_L]

reconstruct_X_from_L(h, low_rank_candidate_L) ==
    Return(h, Ok(np_maximum(0, h[low_rank_candidate_L])))

(* ------------------------ kernelReturnTypes.py ------------------------ *)

\* The dataclasses are declared with a bare @dataclass: the generated
\* __init__ stores its arguments as given, and the instances are not frozen.
dataclass_frozen == FALSE

BaseModelFreeKernelReturnType(reconstruction) ==
    [kind |-> "BaseModelFree", reconstruction |-> reconstruction, variance |-> <<>>]

\* The scalar variance is held as a one-element tuple.
SingleVarianceGaussianModelKernelReturnType(reconstruction, variance) ==
    [kind |-> "SingleVariance", reconstruction |-> reconstruction,
     variance |-> <<variance>>]

RowwiseVarianceGaussianModelKernelReturnType(reconstruction, variance) ==
    [kind |-> "RowwiseVariance", reconstruction |-> reconstruction,
     variance |-> variance]

KernelReturnType(summary, data) == [summary |-> summary, data |-> data]

NoResult ==
    [summary |-> "", data |-> [kind |-> "none", reconstruction |-> 0, variance |-> <<>>]]

(* ------------------------------ the run ------------------------------- *)

\* A well-shaped run: a nonnegative base matrix X, a candidate L of X's
\* shape, a momentum parameter; the previous iterate starts as X itself.
Init ==
    /\ \E s \in Shapes(MaxCells) :
         \E X \in Matrices(s, 0..MaxVal), L \in Matrices(s, (0 - MaxVal)..MaxVal) :
            heap = <<X, L>>
    /\ base = 1 /\ cand = 2 /\ prev = 1
    /\ betaParam \in Betas
    /\ calls = <<>>
    /\ result = NoResult

\* A run whose candidate need not have the base matrix's shape.
InitShapes ==
    /\ \E s \in Shapes(MaxShapeCells), t \in Shapes(MaxShapeCells) :
         \E X \in Matrices(s, 0..MaxVal), L \in Matrices(t, (0 - MaxVal)..MaxVal) :
            heap = <<X, L>>
    /\ base = 1 /\ cand = 2 /\ prev = 1
    /\ betaParam \in Betas
    /\ calls = <<>>
    /\ result = NoResult

Raised == calls # <<>> /\ calls[Len(calls)].outcome = "raised"

\* The caller's statement  L_prev, L = L, f(L, ...): the call is recorded with
\* the contents of its arguments as they were when it was made.
Finish(op, args, b, r) ==
    /\ heap' = r.heap
    /\ calls' = Append(calls,
                  [op |-> op, args |-> args, beta |-> b,
                   in |-> [k \in DOMAIN args |-> heap[args[k]]],
                   outcome |-> IF r.raised THEN "raised" ELSE "returned",
                   ret |-> r.ret,
                   out |-> IF r.raised THEN <<>> ELSE r.heap[r.ret]])
    /\ IF r.raised THEN UNCHANGED <<cand, prev>>
       ELSE cand' = r.ret /\ prev' = cand
    /\ UNCHANGED <<base, betaParam, result>>

CallConstructUtility ==
    /\ Len(calls) < MaxCalls /\ ~Raised
    /\ Finish("construct_utility", <<cand, base>>, 0,
              construct_utility(heap, cand, base))

CallApplyMomentum ==
    /\ Len(calls) < MaxCalls /\ ~Raised
    /\ Finish("apply_momentum", <<cand, prev>>, betaParam,
              apply_momentum(heap, cand, prev, betaParam))

CallReconstruct ==
    /\ Len(calls) < MaxCalls /\ ~Raised
    /\ Finish("reconstruct_X_from_L", <<cand>>, 0,
              reconstruct_X_from_L(heap, cand))

Next == CallConstructUtility \/ CallApplyMomentum \/ CallReconstruct

Spec == Init /\ [][Next]_vars

SpecShapes == InitShapes /\ [][Next]_vars

(* ------------------------- the kernel's report ------------------------ *)

\* A kernel holds the reconstruction of some candidate and reports it.
InitResult ==
    /\ \E s \in Shapes(MaxCells) : \E L \in Matrices(s, (0 - MaxVal)..MaxVal) :
          heap = reconstruct_X_from_L(<<L>>, 1).heap
    /\ base = 1 /\ cand = 2 /\ prev = 1
    /\ betaParam = 0
    /\ calls = <<>>
    /\ result = NoResult

ReportModelFree ==
    /\ result.data.kind = "none"
    /\ \E summary \in Summaries :
          result' = KernelReturnType(summary, BaseModelFreeKernelReturnType(cand))
    /\ UNCHANGED <<heap, base, cand, prev, betaParam, calls>>

ReportSingleVariance ==
    /\ result.data.kind = "none"
    /\ \E summary \in Summaries, variance \in VarianceVals :
          result' = KernelReturnType(summary,
                      SingleVarianceGaussianModelKernelReturnType(cand, variance))
    /\ UNCHANGED <<heap, base, cand, prev, betaParam, calls>>

ReportRowwiseVariance ==
    /\ result.data.kind = "none"
    /\ \E summary \in Summaries, variance \in VarianceVectors(MaxCells) :
          result' = KernelReturnType(summary,
                      RowwiseVarianceGaussianModelKernelReturnType(cand, variance))
    /\ UNCHANGED <<heap, base, cand, prev, betaParam, calls>>

\* The consumer's  result.summary = s : refused only by a frozen dataclass.
SetSummary ==
    /\ result.data.kind # "none"
    /\ \E s \in Summaries :
          result' = IF dataclass_frozen THEN result
                    ELSE [result EXCEPT !.summary = s]
    /\ UNCHANGED <<heap, base, cand, prev, betaParam, calls>>

\* The consumer's  result.data.variance = v  on a single-variance result.
SetVariance ==
    /\ result.data.kind = "SingleVariance"
    /\ \E v \in VarianceVals :
          result' = IF dataclass_frozen THEN result
                    ELSE [result EXCEPT !.data.variance = <<v>>]
    /\ UNCHANGED <<heap, base, cand, prev, betaParam, calls>>

NextResult ==
    \/ ReportModelFree \/ ReportSingleVariance \/ ReportRowwiseVariance
    \/ SetSummary \/ SetVariance

SpecResult == InitResult /\ [][NextResult]_vars

(* ------------------------------ claims -------------------------------- *)

Cells(A) == (1..Len(A)) \X (1..Len(A[1]))
NonNegative(A) == \A c \in Cells(A) : A[c[1]][c[2]] >= 0
Min2(a, b) == IF a <= b THEN a ELSE b
OpCalls(op) == {k \in DOMAIN calls : calls[k].op = op}
\* Call k+1 was made on the array call k returned.
Chained(k) ==
    /\ k + 1 \in DOMAIN calls
    /\ calls[k].outcome = "returned"
    /\ calls[k + 1].args[1] = calls[k].ret

\* C1: construct_utility(L, X) on same-shaped matrices returns Z of that
\* shape with Z[i,j] = X[i,j] where X[i,j] > 0, else L[i,j] where L[i,j] < 0,
\* else 0 (X is tested first); hence for X >= 0, Z[i,j] > 0 only where
\* X[i,j] > 0, and Z[i,j] = min(0, L[i,j]) where X[i,j] = 0.
C1_UtilityCellRule ==
    \A k \in OpCalls("construct_utility") :
        LET L == calls[k].in[1]
            X == calls[k].in[2]
            Z == calls[k].out
        IN  Shape(L) = Shape(X) =>
              /\ calls[k].outcome = "returned"
              /\ Shape(Z) = Shape(X)
              /\ \A c \in Cells(X) :
                   LET x == X[c[1]][c[2]]
                       l == L[c[1]][c[2]]
                       z == Z[c[1]][c[2]]
                   IN  /\ z = IF x > 0 THEN x ELSE IF l < 0 THEN l ELSE 0
                       /\ NonNegative(X) => /\ (z > 0 => x > 0)
                                            /\ (x = 0 => z = Min2(0, l))

\* A utility matrix was built where one cell has X > 0 and L < 0 and another
\* has X = 0 and L < 0.
C1_Witness ==
    \E k \in OpCalls("construct_utility") :
        LET L == calls[k].in[1]
            X == calls[k].in[2]
        IN  /\ calls[k].outcome = "returned"
            /\ \E c \in Cells(X) : X[c[1]][c[2]] > 0 /\ L[c[1]][c[2]] < 0
            /\ \E c \in Cells(X) : X[c[1]][c[2]] = 0 /\ L[c[1]][c[2]] < 0

\* C2: construct_utility and apply_momentum called with operands of
\* different shapes raise, and return no matrix.
C2_ShapeMismatchRaises ==
    \A k \in OpCalls("construct_utility") \cup OpCalls("apply_momentum") :
        Shape(calls[k].in[1]) # Shape(calls[k].in[2]) =>
            calls[k].outcome = "raised" /\ calls[k].ret = 0

\* C3: reconstruct_X_from_L(L) always returns R of L's shape with
\* R[i,j] = max(0, L[i,j]): no negative entry, and R[i,j] = L[i,j] where
\* L[i,j] >= 0.
C3_ReconstructClips ==
    \A k \in OpCalls("reconstruct_X_from_L") :
        LET L == calls[k].in[1]
            R == calls[k].out
        IN  /\ calls[k].outcome = "returned"
            /\ Shape(R) = Shape(L)
            /\ \A c \in Cells(L) :
                 LET l == L[c[1]][c[2]]
                     r == R[c[1]][c[2]]
                 IN  /\ r = IF l > 0 THEN l ELSE 0
                     /\ r >= 0
                     /\ (l >= 0 => r = l)

\* A matrix with a negative and a positive entry was reconstructed.
C3_Witness ==
    \E k \in OpCalls("reconstruct_X_from_L") :
        LET L == calls[k].in[1]
        IN  /\ calls[k].outcome = "returned"
            /\ \E c \in Cells(L) : L[c[1]][c[2]] < 0
            /\ \E c \in Cells(L) : L[c[1]][c[2]] > 0

\* C4: apply_momentum(current, previous, beta) on same-shaped matrices
\* returns next with next[i,j] = current[i,j] + beta * (current[i,j] -
\* previous[i,j]) for any beta; beta = 0 returns current, beta = 1 returns
\* 2 * current[i,j] - previous[i,j].
C4_MomentumFormula ==
    \A k \in OpCalls("apply_momentum") :
        LET current == calls[k].in[1]
            previous == calls[k].in[2]
            next == calls[k].out
            b == calls[k].beta
        IN  Shape(current) = Shape(previous) =>
              /\ calls[k].outcome = "returned"
              /\ Shape(next) = Shape(current)
              /\ \A c \in Cells(current) :
                   LET x == current[c[1]][c[2]]
                       p == previous[c[1]][c[2]]
                       n == next[c[1]][c[2]]
                   IN  /\ n - x = b * (x - p)
                       /\ (b = 1 => n = 2 * x - p)
              /\ (b = 0 => next = current)

\* Momentum was applied with beta outside [0, 1] to matrices that differ,
\* and moved the iterate.
C4_Witness ==
    \E k \in OpCalls("apply_momentum") :
        /\ calls[k].outcome = "returned"
        /\ calls[k].beta \notin 0..1
        /\ calls[k].in[1] # calls[k].in[2]
        /\ calls[k].out # calls[k].in[1]

\* C5: no kernel result holds a negative variance (scalar or element).
C5_NoNegativeVariance ==
    \A n \in DOMAIN result.data.variance : result.data.variance[n] >= 0

\* C6: every rowwise-variance result has one variance per row of its
\* reconstruction.
C6_RowwiseLengthIsRows ==
    result.data.kind = "RowwiseVariance" =>
        Len(result.data.variance) = Len(heap[result.data.reconstruction])

\* C7: a call changes no array that existed before it (so the base matrix
\* keeps its initial contents through any sequence of calls), and what it
\* returns is a new array.
C7_NoArgumentMutation ==
    [][/\ \A id \in DOMAIN heap : id \in DOMAIN heap' /\ heap'[id] = heap[id]
       /\ base' = base
       /\ \A k \in DOMAIN calls' \ DOMAIN calls :
            calls'[k].outcome = "returned" =>
                /\ calls'[k].ret \notin DOMAIN heap
                /\ calls'[k].ret \in DOMAIN heap'
                /\ \A a \in DOMAIN calls'[k].args :
                      heap'[calls'[k].args[a]] = calls'[k].in[a]]_vars

\* Two calls were made, the first applying momentum to the candidate and the
\* base matrix itself (the previous iterate aliases it), with an effect.
C7_Witness ==
    /\ Len(calls) = 2
    /\ calls[1].op = "apply_momentum" /\ calls[1].args[2] = base
    /\ calls[1].out # calls[1].in[1]
    /\ calls[2].outcome = "returned"

\* C8: once a kernel result exists, none of its fields changes.
C8_ResultImmutable ==
    [][result.data.kind # "none" => result' = result]_vars

\* C9: reconstructing a reconstruction returns it unchanged.
C9_ReconstructIdempotent ==
    \A k \in OpCalls("reconstruct_X_from_L") :
        (Chained(k) /\ calls[k + 1].op = "reconstruct_X_from_L") =>
            /\ calls[k + 1].outcome = "returned"
            /\ calls[k + 1].out = calls[k].out

\* A matrix with a negative entry was reconstructed, and the reconstruction
\* reconstructed again.
C9_Witness ==
    \E k \in OpCalls("reconstruct_X_from_L") :
        /\ Chained(k) /\ calls[k + 1].op = "reconstruct_X_from_L"
        /\ \E c \in Cells(calls[k].in[1]) : calls[k].in[1][c[1]][c[2]] < 0

\* C10: for a nonnegative base matrix X and any candidate L of its shape,
\* reconstructing construct_utility(L, X) gives X back.
C10_ClippedUtilityIsBase ==
    \A k \in OpCalls("construct_utility") :
        LET L == calls[k].in[1]
            X == calls[k].in[2]
        IN  (/\ Chained(k) /\ calls[k + 1].op = "reconstruct_X_from_L"
             /\ Shape(L) = Shape(X) /\ NonNegative(X)) =>
                /\ calls[k + 1].outcome = "returned"
                /\ calls[k + 1].out = X

\* The utility matrix of a candidate that is negative at a positive cell of
\* X and positive at a zero cell of X was reconstructed.
C10_Witness ==
    \E k \in OpCalls("construct_utility") :
        LET L == calls[k].in[1]
            X == calls[k].in[2]
        IN  /\ Chained(k) /\ calls[k + 1].op = "reconstruct_X_from_L"
            /\ \E c \in Cells(X) : X[c[1]][c[2]] > 0 /\ L[c[1]][c[2]] < 0
            /\ \E c \in Cells(X) : X[c[1]][c[2]] = 0 /\ L[c[1]][c[2]] > 0

====
